---- MODULE Spec2Model ----
(***************************************************************************)
(* The AST data types of wasm-lib/src/abstract_syntax_tree.rs and their    *)
(* serde wire contract: the derived Serialize/Deserialize implementations  *)
(* of every node type and the hand-written Deserialize of NoneCodeMeta.    *)
(*                                                                         *)
(* A JSON document is one of                                               *)
(*   [num |-> n]  [str |-> s]  [bool |-> b]  [null |-> TRUE]               *)
(*   [arr |-> <<...>>]  [obj |-> f]   (f a function from keys to JSON)     *)
(* An object is a map: the order of its keys in the text is not part of    *)
(* the document, so wherever the decoder's outcome depends on that order   *)
(* every outcome is kept (Deserialize returns a set of results). Keys of   *)
(* node objects are field names; the keys of a noneCodeNodes object are    *)
(* texts that the decoder parses, so they are sequences of characters.     *)
(*                                                                         *)
(* A decoded value is: an integer (usize), a string, a boolean, a JSON     *)
(* document (serde_json::Value), a sequence (Vec), <<>> or <<v>> (Option), *)
(* a function from Rust field names to values (struct),                    *)
(* [variant |-> tag, val |-> struct] (enum), or a function from integers   *)
(* to fragments (HashMap<usize, NoneCodeNode>).                            *)
(***************************************************************************)
EXTENDS Integers, Sequences, FiniteSets, TLC

VARIABLES ty, input, pc, wire, res, out, query

vars == <<ty, input, pc, wire, res, out, query>>

---------------------------------------------------------------------------
(* JSON documents *)

JNum(n) == [num |-> n]
JStr(s) == [str |-> s]
JBool(b) == [bool |-> b]
JNull == [null |-> TRUE]
JArr(s) == [arr |-> s]
JObj(f) == [obj |-> f]

IsNum(j) == "num" \in DOMAIN j
IsStr(j) == "str" \in DOMAIN j
IsBool(j) == "bool" \in DOMAIN j
IsNull(j) == "null" \in DOMAIN j
IsArr(j) == "arr" \in DOMAIN j
IsObj(j) == "obj" \in DOMAIN j

---------------------------------------------------------------------------
(* Outcomes of a decode: Ok(value), a serde error returned to the caller,  *)
(* or a panic (the thread unwinds, nothing is returned).                   *)

Ok(v) == [ok |-> v]
Err(e) == [err |-> e]
Panic(e) == [panic |-> e]

IsOk(r) == "ok" \in DOMAIN r
IsErr(r) == "err" \in DOMAIN r
IsPanic(r) == "panic" \in DOMAIN r

OkVals(R) == {r.ok : r \in {x \in R : IsOk(x)}}
Fails(R) == {x \in R : ~IsOk(x)}

---------------------------------------------------------------------------
(* Field types *)

T_usize == [k |-> "usize", of |-> ""]
T_String == [k |-> "String", of |-> ""]
T_bool == [k |-> "bool", of |-> ""]
T_json == [k |-> "serde_json::Value", of |-> ""]
T_Vec(t) == [k |-> "Vec", of |-> t]
T_Option(t) == [k |-> "Option", of |-> t]
T_HashMap(t) == [k |-> "HashMap", of |-> t]
T_node(t) == [k |-> "node", of |-> t]

Field(name, t) == [name |-> name, ty |-> t]

(* #[serde(rename_all = "camelCase")] on the multi-word fields of the file *)
CamelCase(name) ==
    CASE name = "non_code_meta" -> "nonCodeMeta"
      [] name = "none_code_nodes" -> "noneCodeNodes"
      [] OTHER -> name

---------------------------------------------------------------------------
(* The structs: each is its field list, in declaration order. *)

Program ==
    << Field("start", T_usize), Field("end", T_usize),
       Field("body", T_Vec("BodyItem")),
       Field("non_code_meta", T_node("NoneCodeMeta")) >>

NoneCodeNode ==
    << Field("start", T_usize), Field("end", T_usize),
       Field("value", T_String) >>

(* the derived Serialize sees the integer-keyed map *)
NoneCodeMeta ==
    << Field("none_code_nodes", T_HashMap("NoneCodeNode")),
       Field("start", T_Option("NoneCodeNode")) >>

(* the helper that the hand-written Deserialize decodes first *)
NoneCodeMetaHelper ==
    << Field("none_code_nodes", T_HashMap("NoneCodeNode")),
       Field("start", T_Option("NoneCodeNode")) >>

ExpressionStatement ==
    << Field("start", T_usize), Field("end", T_usize),
       Field("expression", T_node("Value")) >>

CallExpression ==
    << Field("start", T_usize), Field("end", T_usize),
       Field("callee", T_node("Identifier")),
       Field("arguments", T_Vec("Value")),
       Field("optional", T_bool) >>

VariableDeclaration ==
    << Field("start", T_usize), Field("end", T_usize),
       Field("declarations", T_Vec("VariableDeclarator")),
       Field("kind", T_String) >>

VariableDeclarator ==
    << Field("start", T_usize), Field("end", T_usize),
       Field("id", T_node("Identifier")),
       Field("init", T_node("Value")) >>

(* mutant: the literal's value typed as a string *)
Literal_mut ==
    << Field("start", T_usize), Field("end", T_usize),
       Field("value", T_String), Field("raw", T_String) >>

Literal ==
    << Field("start", T_usize), Field("end", T_usize),
       Field("value", T_json), Field("raw", T_String) >>

Identifier ==
    << Field("start", T_usize), Field("end", T_usize),
       Field("name", T_String) >>

PipeSubstitution ==
    << Field("start", T_usize), Field("end", T_usize) >>

ArrayExpression ==
    << Field("start", T_usize), Field("end", T_usize),
       Field("elements", T_Vec("Value")) >>

ObjectExpression ==
    << Field("start", T_usize), Field("end", T_usize),
       Field("properties", T_Vec("ObjectProperty")) >>

ObjectProperty ==
    << Field("start", T_usize), Field("end", T_usize),
       Field("key", T_node("Identifier")),
       Field("value", T_node("Value")) >>

MemberExpression ==
    << Field("start", T_usize), Field("end", T_usize),
       Field("object", T_node("MemberObject")),
       Field("property", T_node("MemberProperty")),
       Field("computed", T_bool) >>

BinaryExpression ==
    << Field("start", T_usize), Field("end", T_usize),
       Field("operator", T_String),
       Field("left", T_node("BinaryPart")),
       Field("right", T_node("BinaryPart")) >>

UnaryExpression ==
    << Field("start", T_usize), Field("end", T_usize),
       Field("operator", T_String),
       Field("argument", T_node("BinaryPart")) >>

PipeExpression ==
    << Field("start", T_usize), Field("end", T_usize),
       Field("body", T_Vec("Value")),
       Field("non_code_meta", T_node("NoneCodeMeta")) >>

FunctionExpression ==
    << Field("start", T_usize), Field("end", T_usize),
       Field("id", T_Option("Identifier")),
       Field("params", T_Vec("Identifier")),
       Field("body", T_node("BlockStatement")) >>

BlockStatement ==
    << Field("start", T_usize), Field("end", T_usize),
       Field("body", T_Vec("BodyItem")),
       Field("non_code_meta", T_node("NoneCodeMeta")) >>

ReturnStatement ==
    << Field("start", T_usize), Field("end", T_usize),
       Field("argument", T_node("Value")) >>

(* The enums, #[serde(tag = "type")]: each is its set of variant names;    *)
(* the payload of a variant is the struct of the same name.                *)

BodyItem == {"ExpressionStatement", "VariableDeclaration", "ReturnStatement"}

Value ==
    {"Literal", "Identifier", "BinaryExpression", "FunctionExpression",
     "CallExpression", "PipeExpression", "PipeSubstitution",
     "ArrayExpression", "ObjectExpression", "MemberExpression",
     "UnaryExpression"}

(* mutant: MemberExpression admitted as a binary operand *)
BinaryPart_mut ==
    {"Literal", "Identifier", "BinaryExpression", "CallExpression",
     "UnaryExpression", "MemberExpression"}

BinaryPart ==
    {"Literal", "Identifier", "BinaryExpression", "CallExpression",
     "UnaryExpression"}

MemberObject == {"MemberExpression", "Identifier"}

MemberProperty == {"Identifier", "Literal"}

EnumNames == {"BodyItem", "Value", "BinaryPart", "MemberObject", "MemberProperty"}

Variants(t) ==
    CASE t = "BodyItem" -> BodyItem
      [] t = "Value" -> Value
      [] t = "BinaryPart" -> BinaryPart
      [] t = "MemberObject" -> MemberObject
      [] t = "MemberProperty" -> MemberProperty

Fields(t) ==
    CASE t = "Program" -> Program
      [] t = "NoneCodeNode" -> NoneCodeNode
      [] t = "NoneCodeMeta" -> NoneCodeMeta
      [] t = "NoneCodeMetaHelper" -> NoneCodeMetaHelper
      [] t = "ExpressionStatement" -> ExpressionStatement
      [] t = "CallExpression" -> CallExpression
      [] t = "VariableDeclaration" -> VariableDeclaration
      [] t = "VariableDeclarator" -> VariableDeclarator
      [] t = "Literal" -> Literal
      [] t = "Identifier" -> Identifier
      [] t = "PipeSubstitution" -> PipeSubstitution
      [] t = "ArrayExpression" -> ArrayExpression
      [] t = "ObjectExpression" -> ObjectExpression
      [] t = "ObjectProperty" -> ObjectProperty
      [] t = "MemberExpression" -> MemberExpression
      [] t = "BinaryExpression" -> BinaryExpression
      [] t = "UnaryExpression" -> UnaryExpression
      [] t = "PipeExpression" -> PipeExpression
      [] t = "FunctionExpression" -> FunctionExpression
      [] t = "BlockStatement" -> BlockStatement
      [] t = "ReturnStatement" -> ReturnStatement

(* mutant: rename_all forgotten on the helper struct *)
RenameAll_mut == {"Program", "NoneCodeMeta", "PipeExpression", "BlockStatement"}

(* the structs that carry #[serde(rename_all = "camelCase")] *)
RenameAll ==
    {"Program", "NoneCodeMeta", "NoneCodeMetaHelper", "PipeExpression",
     "BlockStatement"}

WireName(t, name) == IF t \in RenameAll THEN CamelCase(name) ELSE name

---------------------------------------------------------------------------
(* usize <-> decimal text *)

Digits == <<"0", "1", "2", "3", "4", "5", "6", "7", "8", "9">>

IsDigit(c) == \E d \in 1..10 : Digits[d] = c
DigitVal(c) == (CHOOSE d \in 1..10 : Digits[d] = c) - 1

RECURSIVE FoldDigits(_, _, _)
FoldDigits(s, i, acc) ==
    IF i > Len(s) THEN Ok(acc)
    ELSE IF ~IsDigit(s[i]) THEN Err("InvalidDigit")
    ELSE FoldDigits(s, i + 1, acc * 10 + DigitVal(s[i]))

(* mutant: the first character is skipped as a sign without being looked at *)
ParseUsize_mut(s) ==
    IF Len(s) = 0 THEN Err("Empty")
    ELSE IF Len(s) = 1 /\ s[1] \in {"+", "-"} THEN Err("InvalidDigit")
    ELSE FoldDigits(s, 2, 0)

(* str::parse::<usize>: an optional leading '+', then decimal digits only. *)
(* (Keys here are at most a few characters long, so the PosOverflow case   *)
(* of a key beyond usize::MAX does not arise.)                             *)
ParseUsize(s) ==
    IF Len(s) = 0 THEN Err("Empty")
    ELSE IF Len(s) = 1 /\ s[1] \in {"+", "-"} THEN Err("InvalidDigit")
    ELSE IF s[1] = "+" THEN FoldDigits(s, 2, 0)
    ELSE FoldDigits(s, 1, 0)

(* mutant: the digits are written least significant first *)
RECURSIVE to_string_mut(_)
to_string_mut(n) ==
    IF n < 10 THEN << Digits[n + 1] >>
    ELSE << Digits[(n % 10) + 1] >> \o to_string_mut(n \div 10)

(* the decimal rendering of an integer map key (itoa) *)
RECURSIVE to_string(_)
to_string(n) ==
    IF n < 10 THEN << Digits[n + 1] >>
    ELSE to_string(n \div 10) \o << Digits[(n % 10) + 1] >>

---------------------------------------------------------------------------
(* Decoding.  Deserialize(t, j) is the set of outcomes of decoding the     *)
(* document j as the type named t.                                         *)

(* HashMap::insert: a later insert under the same key replaces the entry *)
Insert(acc, n, v) == [x \in (DOMAIN acc) \cup {n} |-> IF x = n THEN v ELSE acc[x]]

(* the for loop of NoneCodeMeta::deserialize over helper.none_code_nodes,  *)
(* a HashMap<String, _>: the iteration order is arbitrary, so any          *)
(* remaining key may come next; key.parse().unwrap() panics on a key that  *)
(* does not parse.                                                         *)
RECURSIVE InsertLoop(_, _, _)
InsertLoop(m, rem, acc) ==
    IF rem = {} THEN {Ok(acc)}
    ELSE UNION { LET p == ParseUsize(key)
                 IN  IF IsOk(p)
                     THEN InsertLoop(m, rem \ {key}, Insert(acc, p.ok, m[key]))
                     ELSE {Panic("ParseIntError")}
                 : key \in rem }

RECURSIVE Deserialize(_, _)
RECURSIVE DeTy(_, _)
RECURSIVE DeVec(_, _, _)
RECURSIVE DeMapOk(_, _, _)
RECURSIVE DeFields(_, _, _)

(* Vec<T>: the elements are decoded in order, the first failure ends it *)
DeVec(t, s, i) ==
    IF i > Len(s) THEN {Ok(<<>>)}
    ELSE LET R == Deserialize(t, s[i])
         IN  Fails(R) \cup
             (IF OkVals(R) = {} THEN {}
              ELSE { IF IsOk(rest) THEN Ok(<<v>> \o rest.ok) ELSE rest :
                       v \in OkVals(R), rest \in DeVec(t, s, i + 1) })

(* the successfully decoded maps of a HashMap<String, T> over the keys K *)
DeMapOk(t, f, K) ==
    IF K = {} THEN {<<>>}
    ELSE LET key == CHOOSE x \in K : TRUE
         IN  { g @@ (key :> v) :
                 g \in DeMapOk(t, f, K \ {key}),
                 v \in OkVals(Deserialize(t, f[key])) }

(* mutant: the offset is shifted by one *)
DeUsize_mut(j) ==
    IF IsNum(j) /\ j.num >= 0 THEN {Ok(j.num + 1)} ELSE {Err("invalid type")}

(* a usize field: a non-negative JSON integer *)
DeUsize(j) ==
    IF IsNum(j) /\ j.num >= 0 THEN {Ok(j.num)} ELSE {Err("invalid type")}

(* one field type *)
DeTy(t, j) ==
    CASE t.k = "usize" -> DeUsize(j)
      [] t.k = "String" ->
           IF IsStr(j) THEN {Ok(j.str)} ELSE {Err("invalid type")}
      [] t.k = "bool" ->
           IF IsBool(j) THEN {Ok(j.bool)} ELSE {Err("invalid type")}
      [] t.k = "serde_json::Value" -> {Ok(j)}
      [] t.k = "Vec" ->
           IF IsArr(j) THEN DeVec(t.of, j.arr, 1) ELSE {Err("invalid type")}
      [] t.k = "Option" ->
           IF IsNull(j) THEN {Ok(<<>>)}
           ELSE { IF IsOk(r) THEN Ok(<<r.ok>>) ELSE r : r \in Deserialize(t.of, j) }
      [] t.k = "HashMap" ->
           IF ~IsObj(j) THEN {Err("invalid type")}
           ELSE UNION { Fails(Deserialize(t.of, j.obj[key])) : key \in DOMAIN j.obj }
                \cup
                (IF \A key \in DOMAIN j.obj : OkVals(Deserialize(t.of, j.obj[key])) # {}
                 THEN { Ok(g) : g \in DeMapOk(t.of, j.obj, DOMAIN j.obj) }
                 ELSE {})
      [] t.k = "node" -> Deserialize(t.of, j)

(* The fields 1..n of struct t that are present in the object f, each      *)
(* decoded once: the failures any of them can end in, and the partial      *)
(* structs of their decoded values.  An absent Option field is None.       *)
DeFields(t, f, n) ==
    IF n = 0 THEN [fails |-> {}, oks |-> {<<>>}]
    ELSE LET fld == Fields(t)[n]
             w == WireName(t, fld.name)
             prev == DeFields(t, f, n - 1)
             R == IF w \in DOMAIN f THEN DeTy(fld.ty, f[w])
                  ELSE IF fld.ty.k = "Option" THEN {Ok(<<>>)}
                  ELSE {}
         IN  IF w \notin DOMAIN f /\ fld.ty.k # "Option" THEN prev
             ELSE [fails |-> prev.fails \cup Fails(R),
                   oks |-> {g @@ (fld.name :> v) : g \in prev.oks, v \in OkVals(R)}]

(* #[derive(Deserialize)] on a struct, from the object f: the fields are   *)
(* decoded as they come in the document (any field first, so the failure   *)
(* of any present field can be the outcome), unknown keys are ignored, and *)
(* a required field that never came is reported at the end.                *)
DeStruct(t, f) ==
    LET idx == 1..Len(Fields(t))
        missing == {i \in idx : /\ WireName(t, Fields(t)[i].name) \notin DOMAIN f
                                /\ Fields(t)[i].ty.k # "Option"}
        all == DeFields(t, f, Len(Fields(t)))
    IN  all.fails
        \cup
        (IF all.oks = {} THEN {}
         ELSE IF missing # {} THEN {Err("missing field")}
         ELSE {Ok(g) : g \in all.oks})

(* #[derive(Deserialize)] #[serde(tag = "type")] on an enum: the tag is    *)
(* read first and selects the variant, whose struct is decoded from the    *)
(* remaining entries.                                                      *)
DeEnum(t, j) ==
    IF ~IsObj(j) THEN {Err("invalid type")}
    ELSE IF "type" \notin DOMAIN j.obj THEN {Err("missing field")}
    ELSE IF ~IsStr(j.obj["type"]) THEN {Err("invalid type")}
    ELSE IF j.obj["type"].str \notin Variants(t) THEN {Err("unknown variant")}
    ELSE LET tag == j.obj["type"].str
             rest == [x \in (DOMAIN j.obj) \ {"type"} |-> j.obj[x]]
         IN  { IF IsOk(r) THEN Ok([variant |-> tag, val |-> r.ok]) ELSE r :
                 r \in DeStruct(tag, rest) }

(* impl Deserialize for NoneCodeMeta *)
NoneCodeMeta_deserialize(j) ==
    UNION { IF IsOk(h)
            THEN { IF IsOk(r)
                   THEN Ok([none_code_nodes |-> r.ok, start |-> h.ok.start])
                   ELSE r :
                     r \in InsertLoop(h.ok.none_code_nodes,
                                      DOMAIN h.ok.none_code_nodes, <<>>) }
            ELSE {h}
            : h \in Deserialize("NoneCodeMetaHelper", j) }

Deserialize(t, j) ==
    IF t \in EnumNames THEN DeEnum(t, j)
    ELSE IF t = "NoneCodeMeta" THEN NoneCodeMeta_deserialize(j)
    ELSE IF IsObj(j) THEN DeStruct(t, j.obj)
    ELSE {Err("invalid type")}

---------------------------------------------------------------------------
(* Encoding: #[derive(Serialize)] *)

RECURSIVE Serialize(_, _)
RECURSIVE SerTy(_, _)

SerTy(t, v) ==
    CASE t.k = "usize" -> JNum(v)
      [] t.k = "String" -> JStr(v)
      [] t.k = "bool" -> JBool(v)
      [] t.k = "serde_json::Value" -> v
      [] t.k = "Vec" -> JArr([i \in 1..Len(v) |-> Serialize(t.of, v[i])])
      [] t.k = "Option" -> IF Len(v) = 0 THEN JNull ELSE Serialize(t.of, v[1])
      [] t.k = "HashMap" ->
           (* HashMap<usize, T>: serde_json writes an integer key as its   *)
           (* decimal text                                                 *)
           JObj([s \in {to_string(n) : n \in DOMAIN v} |->
                   Serialize(t.of, v[CHOOSE n \in DOMAIN v : to_string(n) = s])])
      [] t.k = "node" -> Serialize(t.of, v)

SerStruct(t, v) ==
    LET idx == 1..Len(Fields(t))
        w(i) == WireName(t, Fields(t)[i].name)
    IN  [x \in {w(i) : i \in idx} |->
           LET i == CHOOSE i \in idx : w(i) = x
           IN  SerTy(Fields(t)[i].ty, v[Fields(t)[i].name])]

(* an enum writes its tag next to the fields of the variant's struct *)
SerEnum(t, v) == ("type" :> JStr(v.variant)) @@ SerStruct(v.variant, v.val)

Serialize(t, v) ==
    IF t \in EnumNames THEN JObj(SerEnum(t, v)) ELSE JObj(SerStruct(t, v))

(* HashMap::get on the public none_code_nodes field *)
Get(m, n) == IF n \in DOMAIN m THEN <<m[n]>> ELSE <<>>

---------------------------------------------------------------------------
(* Bounds and the documents and trees handed to the codec *)

MaxKeyLen == 2
MaxEntries == 2
MaxOffset == 1

Offsets == 0..MaxOffset
Spans == Offsets \X Offsets

KeyChars == {"0", "3"}

RECURSIVE Strings(_)
Strings(n) ==
    IF n = 0 THEN {<<>>}
    ELSE LET S == Strings(n - 1)
         IN  S \cup {Append(s, c) : s \in {x \in S : Len(x) = n - 1}, c \in KeyChars}

SampleKeys ==
    { <<"1">>, <<"1", "0">>, <<"+", "3">>, <<"+">>, <<"-", "1">>, <<"1", ".", "5">>,
      <<"a", "b", "c">> }

Keys == Strings(MaxKeyLen) \cup SampleKeys

RECURSIVE SubsetsUpTo(_, _)
SubsetsUpTo(K, n) ==
    IF n = 0 THEN {{}}
    ELSE LET P == SubsetsUpTo(K, n - 1)
         IN  P \cup {p \cup {x} : p \in P, x \in K}

QueryOrdinals == {0, 1, 3, 10}

(* wire constructors *)
Sp(s) == [start |-> JNum(s[1]), end |-> JNum(s[2])]
W(tag, s, rest) == JObj(("type" :> JStr(tag)) @@ Sp(s) @@ rest)
U(s, rest) == JObj(Sp(s) @@ rest)

WFrag(s, text) == U(s, [value |-> JStr(text)])
FragA == WFrag(<<0, 1>>, "// hi")
FragB == WFrag(<<1, 0>>, "// yo")
FragNoValue == JObj(Sp(<<0, 1>>))

WRegs(maps, starts) ==
    { JObj([noneCodeNodes |-> JObj(m)]) : m \in maps }
    \cup { JObj([noneCodeNodes |-> JObj(m), start |-> s]) : m \in maps, s \in starts }

KeyMaps(K, F) == UNION { [D -> F] : D \in SubsetsUpTo(K, MaxEntries) }

(* the registry documents: every map of at most MaxEntries keys *)
RegistryDocs ==
    WRegs(KeyMaps(Keys, {FragA, FragB}), {})
    \cup WRegs(KeyMaps({<<"1">>, <<"0", "3">>}, {FragB, FragNoValue}),
              {JNull, FragA, FragNoValue, JStr("x")})
    \cup { JObj([start |-> JNull]), JNull, JObj([noneCodeNodes |-> JArr(<<>>)]) }

MaxList == 1

RECURSIVE Lists(_, _)
Lists(S, n) ==
    IF n = 0 THEN {<<>>}
    ELSE LET L == Lists(S, n - 1)
         IN  L \cup {Append(l, x) : l \in {y \in L : Len(y) = n - 1}, x \in S}

(* wire nodes *)
W0(tag, s) == JObj(("type" :> JStr(tag)) @@ Sp(s))
WIdent(s) == W("Identifier", s, [name |-> JStr("foo")])
WIdentBare(s) == U(s, [name |-> JStr("foo")])
WLit(s, v) == W("Literal", s, [value |-> v, raw |-> JStr("1")])
WPipeSub(s) == W0("PipeSubstitution", s)
WBinary(l, r) ==
    W("BinaryExpression", <<0, 1>>, [operator |-> JStr("+"), left |-> l, right |-> r])
WUnary(a) == W("UnaryExpression", <<0, 1>>, [operator |-> JStr("-"), argument |-> a])
WCall(c, args) ==
    W("CallExpression", <<0, 1>>,
      [callee |-> c, arguments |-> JArr(args), optional |-> JBool(FALSE)])
WArray(els) == W("ArrayExpression", <<0, 1>>, [elements |-> JArr(els)])
WProp(key, v) == U(<<0, 1>>, [key |-> key, value |-> v])
WObject(props) == W("ObjectExpression", <<0, 1>>, [properties |-> JArr(props)])
WMember(o, p, c) ==
    W("MemberExpression", <<0, 1>>, [object |-> o, property |-> p, computed |-> JBool(c)])
WPipe(body, reg) == W("PipeExpression", <<0, 1>>, [body |-> JArr(body), nonCodeMeta |-> reg])
WBlock(items, reg) == U(<<0, 1>>, [body |-> JArr(items), nonCodeMeta |-> reg])
WFunction(params, body) ==
    W("FunctionExpression", <<0, 1>>, [params |-> JArr(params), body |-> body])
WFunctionId(id, params, body) ==
    W("FunctionExpression", <<0, 1>>, [id |-> id, params |-> JArr(params), body |-> body])
WExprStmt(v) == W("ExpressionStatement", <<0, 1>>, [expression |-> v])
WReturn(v) == W("ReturnStatement", <<0, 1>>, [argument |-> v])
WDeclarator(id, v) == U(<<0, 1>>, [id |-> id, init |-> v])
WVarDecl(decls) ==
    W("VariableDeclaration", <<0, 1>>, [declarations |-> JArr(decls), kind |-> JStr("const")])
WProgram(s, items, reg) == U(s, [body |-> JArr(items), nonCodeMeta |-> reg])

Scalars == {JNum(1), JStr("a"), JBool(TRUE)}
NonScalars == {JNull, JArr(<<JNum(1)>>), JObj([a |-> JNum(1)])}

WReg(m) == JObj([noneCodeNodes |-> JObj(m), start |-> JNull])
WMember0 == WMember(WIdent(<<0, 1>>), WIdent(<<0, 1>>), FALSE)
WPipe0 == WPipe(<<>>, WReg(<<>>))

(* The child documents a composite is built from, by position: v a Value,  *)
(* bp a BinaryPart, id an Identifier struct, mo a MemberObject, mp a       *)
(* MemberProperty, reg a NoneCodeMeta.                                     *)
KGood ==
    [ v   |-> {WIdent(<<0, 1>>), WLit(<<1, 0>>, JNum(1)), WPipeSub(<<1, 1>>)},
      bp  |-> {WIdent(<<0, 1>>), WLit(<<1, 0>>, JNum(1))},
      id  |-> {WIdentBare(<<0, 1>>), WIdent(<<1, 0>>)},
      mo  |-> {WIdent(<<0, 1>>), WMember0},
      mp  |-> {WIdent(<<0, 1>>), WLit(<<0, 1>>, JStr("a"))},
      reg |-> {WReg(<<>>), WReg(<<"1">> :> FragA)} ]

(* nodes whose tag is unknown, absent, not a string, or of another family *)
UnknownTag == W("Frobnicate", <<0, 1>>, [name |-> JStr("foo")])
AbsentTag == WIdentBare(<<0, 1>>)
NumericTag == JObj([type |-> JNum(0), start |-> JNum(0), end |-> JNum(1), name |-> JStr("foo")])

KTag ==
    [ v   |-> KGood.v \cup {UnknownTag, AbsentTag},
      bp  |-> KGood.bp \cup {UnknownTag, AbsentTag, WPipe0, WMember0},
      id  |-> KGood.id,
      mo  |-> KGood.mo \cup {UnknownTag, WLit(<<0, 1>>, JNum(1))},
      mp  |-> KGood.mp \cup {AbsentTag, WPipeSub(<<0, 1>>)},
      reg |-> KGood.reg ]

(* nodes with a required field missing or of the wrong JSON type *)
NoName == W0("Identifier", <<0, 1>>)
NoRaw == W("Literal", <<0, 1>>, [value |-> JNum(1)])
NoValue == W("Literal", <<0, 1>>, [raw |-> JStr("1")])
TextStart == JObj([type |-> JStr("Identifier"), start |-> JStr("0"), end |-> JNum(1), name |-> JStr("foo")])
NegStart == JObj([type |-> JStr("Identifier"), start |-> JNum(-1), end |-> JNum(1), name |-> JStr("foo")])

KField ==
    [ v   |-> KGood.v \cup {NoName, NoRaw, NoValue, TextStart},
      bp  |-> KGood.bp \cup {NoValue, NegStart},
      id  |-> KGood.id \cup {JObj(Sp(<<0, 1>>)), JStr("foo")},
      mo  |-> KGood.mo \cup {NoName},
      mp  |-> KGood.mp \cup {NoRaw},
      reg |-> KGood.reg \cup {JObj([start |-> JNull]), WReg(<<"1">> :> FragNoValue)} ]

(* registries with a key that is not a decimal number *)
KKey ==
    [ v   |-> KGood.v,
      bp  |-> KGood.bp,
      id  |-> KGood.id,
      mo  |-> KGood.mo,
      mp  |-> KGood.mp,
      reg |-> KGood.reg \cup {WReg(<<"a", "b", "c">> :> FragA), WReg(<<"-", "1">> :> FragA)} ]

WBodyItems(K) ==
    {WExprStmt(v) : v \in K.v} \cup {WReturn(v) : v \in K.v}
    \cup {WVarDecl(d) : d \in Lists({WDeclarator(i, v) : i \in K.id, v \in K.v}, 1)}

WBlocks(K) ==
    {WBlock(items, WReg(<<>>)) : items \in Lists(WBodyItems(K), 1)}
    \cup {WBlock(<<>>, r) : r \in K.reg}

(* the composite Value documents over the children K *)
WComposites(K) ==
    {WBinary(l, r) : l \in K.bp, r \in K.bp}
    \cup {WUnary(a) : a \in K.bp}
    \cup {WCall(c, args) : c \in K.id, args \in Lists(K.v, MaxList)}
    \cup {WArray(els) : els \in Lists(K.v, MaxList)}
    \cup {WObject(props) : props \in Lists({WProp(key, v) : key \in K.id, v \in K.v}, 1)}
    \cup {WMember(o, p, c) : o \in K.mo, p \in K.mp, c \in BOOLEAN}
    \cup {WPipe(body, r) : body \in Lists(K.v, MaxList), r \in K.reg}
    \cup {WFunction(params, b) : params \in Lists(K.id, 1), b \in WBlocks(K)}
    \cup {WFunctionId(id, <<>>, b) : id \in K.id \cup {JNull}, b \in WBlocks(K)}

WLeaves ==
    {WIdent(s) : s \in Spans} \cup {WPipeSub(s) : s \in Spans}
    \cup {WLit(s, v) : s \in Spans, v \in Scalars \cup NonScalars}

WValues(K) == K.v \cup WComposites(K)

WPrograms(K) ==
    {WProgram(s, <<>>, r) : s \in Spans, r \in K.reg}
    \cup {WProgram(<<0, 1>>, <<WExprStmt(v)>>, WReg(<<>>)) : v \in WValues(K)}
    \cup {WProgram(<<0, 1>>, <<item>>, r) : item \in WBodyItems(K), r \in K.reg}
    \cup {WProgram(<<0, 1>>, <<WExprStmt(v), WReturn(u)>>, WReg(<<>>)) :
            v \in K.v, u \in K.v}

(* the documents of type t with exactly the defects of K *)
Defective(t, K, defect) ==
    { [ty |-> t, doc |-> d, defect |-> defect] :
        d \in (IF t = "Program" THEN WPrograms(K) \ WPrograms(KGood)
               ELSE WValues(K) \ WValues(KGood)) }

(* one well-formed body per tag, offered to each enum under every tag *)
AllTags == Value \cup BodyItem \cup {"Frobnicate", "Program", "BlockStatement", "NoneCodeNode"}

Tagged ==
    WValues(KGood) \cup WLeaves \cup WBodyItems(KGood)
    \cup {UnknownTag} \cup {W(t, <<0, 1>>, WProgram(<<0, 1>>, <<>>, WReg(<<>>)).obj) :
                               t \in {"Program", "BlockStatement"}}

TagDocs ==
    { [ty |-> t, doc |-> d, defect |-> "tagged"] : t \in EnumNames, d \in Tagged }
    \cup { [ty |-> t, doc |-> d, defect |-> "tagged"] :
             t \in EnumNames, d \in {AbsentTag, NumericTag, JNull, JStr("Literal")} }

WireInputs ==
    { [ty |-> "NoneCodeMeta", doc |-> d, defect |-> "n/a"] : d \in RegistryDocs }
    \cup TagDocs
    \cup { [ty |-> "Value", doc |-> d, defect |-> "none"] : d \in WValues(KGood) \cup WLeaves }
    \cup { [ty |-> "Program", doc |-> d, defect |-> "none"] : d \in WPrograms(KGood) }
    \cup UNION { Defective(t, KTag, "tag") \cup Defective(t, KField, "field")
                 \cup Defective(t, KKey, "key") : t \in {"Value", "Program"} }

(* trees *)
MaxOrdinal == 10

TSp(s) == [start |-> s[1], end |-> s[2]]
N(tag, s, rest) == [variant |-> tag, val |-> TSp(s) @@ rest]
N0(tag, s) == [variant |-> tag, val |-> TSp(s)]
S(s, rest) == TSp(s) @@ rest

TFrag(s, text) == S(s, [value |-> text])
TFrags == {TFrag(<<0, 1>>, "// hi"), TFrag(<<1, 1>>, "// yo")}
TIdent(s) == S(s, [name |-> "foo"])
TLit(s, v) == S(s, [value |-> v, raw |-> "1"])

TReg(m, st) == [none_code_nodes |-> m, start |-> st]

TRegs(ords, n) ==
    { TReg(m, st) :
        m \in UNION { [D -> TFrags] : D \in SubsetsUpTo(ords, n) },
        st \in {<<>>, <<TFrag(<<0, 0>>, "// a")>>} }

TLeaves ==
    {N("Identifier", s, [name |-> "foo"]) : s \in Spans}
    \cup {N0("PipeSubstitution", s) : s \in Spans}
    \cup {N("Literal", s, [value |-> v, raw |-> "1"]) : s \in Spans, v \in Scalars \cup NonScalars}

TKids ==
    [ v   |-> {N("Identifier", <<0, 1>>, [name |-> "foo"]),
               N("Literal", <<1, 1>>, [value |-> JNum(1), raw |-> "1"]),
               N0("PipeSubstitution", <<0, 0>>)},
      bp  |-> {N("Identifier", <<0, 1>>, [name |-> "foo"]),
               N("Literal", <<1, 1>>, [value |-> JStr("a"), raw |-> "1"])},
      id  |-> {TIdent(<<0, 1>>), TIdent(<<1, 1>>)},
      mo  |-> {N("Identifier", <<0, 1>>, [name |-> "foo"]),
               N("MemberExpression", <<0, 1>>,
                 [object |-> N("Identifier", <<0, 0>>, [name |-> "foo"]),
                  property |-> N("Identifier", <<1, 1>>, [name |-> "foo"]),
                  computed |-> FALSE])},
      mp  |-> {N("Identifier", <<0, 1>>, [name |-> "foo"]),
               N("Literal", <<0, 1>>, [value |-> JStr("a"), raw |-> "1"])},
      reg |-> {TReg(<<>>, <<>>), TReg(1 :> TFrag(<<0, 1>>, "// hi"), <<>>),
               TReg(10 :> TFrag(<<1, 1>>, "// yo"), <<TFrag(<<0, 0>>, "// a")>>)} ]

TBodyItems(K) ==
    {N("ExpressionStatement", <<0, 1>>, [expression |-> v]) : v \in K.v}
    \cup {N("ReturnStatement", <<0, 1>>, [argument |-> v]) : v \in K.v}
    \cup {N("VariableDeclaration", <<0, 1>>, [declarations |-> d, kind |-> "const"]) :
            d \in Lists({S(<<0, 1>>, [id |-> i, init |-> v]) : i \in K.id, v \in K.v}, 1)}

TBlocks(K) ==
    {S(<<0, 1>>, [body |-> items, non_code_meta |-> r]) :
       items \in Lists(TBodyItems(K), 1), r \in K.reg}

TComposites(K) ==
    {N("BinaryExpression", <<0, 1>>, [operator |-> "+", left |-> l, right |-> r]) :
       l \in K.bp, r \in K.bp}
    \cup {N("UnaryExpression", <<0, 1>>, [operator |-> "-", argument |-> a]) : a \in K.bp}
    \cup {N("CallExpression", <<0, 1>>, [callee |-> c, arguments |-> args, optional |-> o]) :
            c \in K.id, args \in Lists(K.v, MaxList), o \in BOOLEAN}
    \cup {N("ArrayExpression", <<0, 1>>, [elements |-> els]) : els \in Lists(K.v, MaxList)}
    \cup {N("ObjectExpression", <<0, 1>>, [properties |-> props]) :
            props \in Lists({S(<<0, 1>>, [key |-> key, value |-> v]) :
                               key \in K.id, v \in K.v}, 1)}
    \cup {N("MemberExpression", <<0, 1>>, [object |-> o, property |-> p, computed |-> c]) :
            o \in K.mo, p \in K.mp, c \in BOOLEAN}
    \cup {N("PipeExpression", <<0, 1>>, [body |-> body, non_code_meta |-> r]) :
            body \in Lists(K.v, MaxList), r \in K.reg}
    \cup {N("FunctionExpression", <<0, 1>>, [id |-> id, params |-> params, body |-> b]) :
            id \in Lists(K.id, 1), params \in {<<>>, <<TIdent(<<0, 0>>)>>},
            b \in TBlocks(K)}

TValues == TLeaves \cup TComposites(TKids)

TPrograms ==
    {S(s, [body |-> <<>>, non_code_meta |-> r]) : s \in Spans, r \in TKids.reg}
    \cup {S(<<0, 1>>, [body |-> <<N("ExpressionStatement", <<0, 1>>, [expression |-> v])>>,
                        non_code_meta |-> r]) :
            v \in TValues, r \in {TReg(<<>>, <<>>), TReg(0 :> TFrag(<<0, 1>>, "// hi"), <<>>)}}
    \cup {S(<<0, 1>>, [body |-> items, non_code_meta |-> TReg(<<>>, <<>>)]) :
            items \in Lists(TBodyItems(TKids), 2)}

TreeInputs ==
    { [ty |-> "NoneCodeMeta", tree |-> t] : t \in TRegs(0..MaxOrdinal, MaxEntries) }
    \cup { [ty |-> "Value", tree |-> t] : t \in TValues }
    \cup { [ty |-> "Program", tree |-> t] : t \in TPrograms }

---------------------------------------------------------------------------
(* The state machine: a document (or a tree, encoded first) is decoded,    *)
(* and the decoded tree is queried or encoded again.                       *)

NoRes == [none |-> TRUE]

Init ==
    /\ \/ \E i \in WireInputs :
            /\ ty = i.ty
            /\ input = [wire |-> i.doc, defect |-> i.defect]
            /\ wire = i.doc
            /\ pc = "wire"
       \/ \E i \in TreeInputs :
            /\ ty = i.ty
            /\ input = [tree |-> i.tree, defect |-> "none"]
            /\ wire = JNull
            /\ pc = "tree"
    /\ res = NoRes
    /\ out = JNull
    /\ query = <<>>

(* encode the tree under test *)
Encode ==
    /\ pc = "tree"
    /\ wire' = Serialize(ty, input.tree)
    /\ pc' = "wire"
    /\ UNCHANGED <<ty, input, res, out, query>>

(* decode the document: a tree, an error value, or a panic *)
Decode ==
    /\ pc = "wire"
    /\ \E r \in Deserialize(ty, wire) :
         /\ res' = r
         /\ pc' = IF IsOk(r) THEN "decoded" ELSE IF IsErr(r) THEN "failed" ELSE "aborted"
    /\ UNCHANGED <<ty, input, wire, out, query>>

(* encode the decoded tree *)
Reencode ==
    /\ pc = "decoded"
    /\ out' = Serialize(ty, res.ok)
    /\ pc' = "reencoded"
    /\ UNCHANGED <<ty, input, wire, res, query>>

(* look an ordinal up in a decoded registry *)
Lookup ==
    /\ pc = "decoded"
    /\ ty = "NoneCodeMeta"
    /\ \E n \in QueryOrdinals :
         query' = <<n, Get(res.ok.none_code_nodes, n)>>
    /\ pc' = "queried"
    /\ UNCHANGED <<ty, input, wire, res, out>>

Next == Encode \/ Decode \/ Reencode \/ Lookup

Spec == Init /\ [][Next]_vars

---------------------------------------------------------------------------
(* Vocabulary of the properties *)

FromWire == "wire" \in DOMAIN input
FromTree == "tree" \in DOMAIN input
Decoded == pc \in {"decoded", "reencoded", "queried"}
Finished == pc \notin {"tree", "wire"}

IsRegDoc(d) ==
    /\ IsObj(d)
    /\ "noneCodeNodes" \in DOMAIN d.obj
    /\ IsObj(d.obj["noneCodeNodes"])
RegMap(d) == d.obj["noneCodeNodes"].obj

HasTag(d) == IsObj(d) /\ "type" \in DOMAIN d.obj /\ IsStr(d.obj["type"])
TagOf(d) == d.obj["type"].str

(* decimal texts and their values, as arithmetic defines them *)
AllDigits(s) == Len(s) >= 1 /\ \A i \in 1..Len(s) : IsDigit(s[i])
Canonical(s) == AllDigits(s) /\ (Len(s) = 1 \/ s[1] # "0")
Signed(s) == Len(s) >= 2 /\ s[1] = "+" /\ AllDigits(Tail(s))

RECURSIVE DecimalValue(_)
DecimalValue(s) ==
    IF Len(s) = 0 THEN 0
    ELSE 10 * DecimalValue(SubSeq(s, 1, Len(s) - 1)) + DigitVal(s[Len(s)])

KeyValue(s) == IF s[1] = "+" THEN DecimalValue(Tail(s)) ELSE DecimalValue(s)

WellFormedFrag(j) ==
    /\ IsObj(j)
    /\ {"start", "end", "value"} \subseteq DOMAIN j.obj
    /\ IsNum(j.obj["start"]) /\ j.obj["start"].num >= 0
    /\ IsNum(j.obj["end"]) /\ j.obj["end"].num >= 0
    /\ IsStr(j.obj["value"])

FragOf(j) ==
    [start |-> j.obj["start"].num, end |-> j.obj["end"].num, value |-> j.obj["value"].str]

(* a registry document that is well formed apart from the texts of its keys *)
WellFormedReg(d) ==
    /\ IsRegDoc(d)
    /\ \A key \in DOMAIN RegMap(d) : WellFormedFrag(RegMap(d)[key])
    /\ "start" \in DOMAIN d.obj => (IsNull(d.obj["start"]) \/ WellFormedFrag(d.obj["start"]))

---------------------------------------------------------------------------
(* C1: decoding a NoneCodeMeta document one of whose noneCodeNodes keys is *)
(* not the text of a non-negative integer ends in a decode error returned  *)
(* to the caller, not in a panic, and produces no registry.  (A key with a *)
(* leading '+' is left out of the case: Rust parses it as a non-negative   *)
(* integer.)                                                               *)
C1_MalformedKeyIsAnError ==
    ( /\ FromWire /\ ty = "NoneCodeMeta" /\ Finished
      /\ WellFormedReg(input.wire)
      /\ \E key \in DOMAIN RegMap(input.wire) : ~AllDigits(key) /\ ~Signed(key) )
    => (pc = "failed" /\ IsErr(res))

(* C2: for every tree T, decode(encode(T)) succeeds and equals T field for *)
(* field: offsets, variant tags, list order, the registry's ordinals with  *)
(* their fragments, and the optional leading fragment.                     *)
C2_RoundTrip ==
    (FromTree /\ Finished) => (IsOk(res) /\ res.ok = input.tree)

C2_Witness ==
    /\ FromTree /\ pc = "decoded" /\ ty = "Program"
    /\ Len(input.tree.body) = 2
    /\ res.ok.body[1].variant = "VariableDeclaration"

C2_WitnessRegistry ==
    /\ FromTree /\ pc = "decoded" /\ ty = "NoneCodeMeta"
    /\ DOMAIN input.tree.none_code_nodes = {3, 10}
    /\ Len(input.tree.start) = 1

(* C3: every noneCodeNodes key that decode accepts is stored under its     *)
(* integer value and is encoded again as the canonical decimal text of     *)
(* that integer (no sign, no leading zero), so "03" becomes ordinal 3 and  *)
(* is written "3"; and encode(decode(encode(R))) = encode(R) for every     *)
(* registry R.                                                             *)
C3_KeyCanonicalization ==
    /\ (FromWire /\ ty = "NoneCodeMeta" /\ Decoded) =>
         LET keys == DOMAIN RegMap(input.wire)
             ords == DOMAIN res.ok.none_code_nodes
         IN  /\ \A key \in keys : AllDigits(key) \/ Signed(key)
             /\ ords = {KeyValue(key) : key \in keys}
             /\ pc = "reencoded" =>
                  /\ \A s \in DOMAIN RegMap(out) : Canonical(s)
                  /\ {DecimalValue(s) : s \in DOMAIN RegMap(out)} = ords
                  /\ Cardinality(DOMAIN RegMap(out)) = Cardinality(ords)
    /\ (FromTree /\ ty = "NoneCodeMeta" /\ pc = "reencoded") => out = wire

C3_Witness ==
    /\ FromWire /\ ty = "NoneCodeMeta" /\ pc = "reencoded"
    /\ DOMAIN RegMap(input.wire) = {<<"0", "3">>}
    /\ DOMAIN RegMap(out) = {<<"3">>}
    /\ DOMAIN res.ok.none_code_nodes = {3}

(* C4: for each of the five tagged families the tags that decode accepts   *)
(* are exactly the family's variants, each tag decodes to the variant of   *)
(* the same name, and a node whose tag is absent, unknown or valid only    *)
(* for another family fails to decode with an error (SchemaMismatch).      *)
C4_Tags(t) ==
    CASE t = "BodyItem" ->
           {"ExpressionStatement", "VariableDeclaration", "ReturnStatement"}
      [] t = "Value" ->
           {"Literal", "Identifier", "BinaryExpression", "FunctionExpression",
            "CallExpression", "PipeExpression", "PipeSubstitution",
            "ArrayExpression", "ObjectExpression", "MemberExpression",
            "UnaryExpression"}
      [] t = "BinaryPart" ->
           {"Literal", "Identifier", "BinaryExpression", "CallExpression",
            "UnaryExpression"}
      [] t = "MemberObject" -> {"MemberExpression", "Identifier"}
      [] t = "MemberProperty" -> {"Identifier", "Literal"}

C4_TagExhaustiveness ==
    (FromWire /\ ty \in EnumNames /\ input.defect \in {"none", "tagged"} /\ Finished) =>
        IF HasTag(input.wire) /\ TagOf(input.wire) \in C4_Tags(ty)
        THEN IsOk(res) /\ res.ok.variant = TagOf(input.wire)
        ELSE pc = "failed" /\ IsErr(res)

C4_Witness ==
    /\ FromWire /\ ty = "BinaryPart" /\ pc = "failed"
    /\ HasTag(input.wire) /\ TagOf(input.wire) = "MemberExpression"

C4_WitnessAccepted ==
    /\ FromWire /\ ty = "MemberProperty" /\ pc = "decoded"
    /\ res.ok.variant = "Literal"

(* C5: for every wire object J that decodes successfully, here a           *)
(* CallExpression whose callee is an Identifier object and whose arguments *)
(* are tagged nodes, encode(decode(J)) is the same JSON object: the same   *)
(* fields with the same values at every level, the type field of the       *)
(* callee included.                                                        *)
C5_WireRoundTrip ==
    ( /\ FromWire /\ ty = "Value" /\ input.defect = "none" /\ pc = "reencoded"
      /\ TagOf(input.wire) = "CallExpression" )
    => out = input.wire

(* C7: when any node at any depth of a Program document fails to decode    *)
(* (unknown tag, missing or mistyped field, malformed noneCodeNodes key in *)
(* a nested registry) the decode of the Program ends in an error returned  *)
(* to the caller and yields no tree.                                       *)
C7_FailureIsTotal ==
    ( /\ FromWire /\ ty = "Program" /\ input.defect \in {"tag", "field", "key"}
      /\ Finished )
    => (pc = "failed" /\ IsErr(res))

(* the part of C7 that the code keeps: a bad tag or field is an error *)
C7_TagAndFieldFailuresAreErrors ==
    ( /\ FromWire /\ ty \in {"Program", "Value"} /\ input.defect \in {"tag", "field"}
      /\ Finished )
    => (pc = "failed" /\ IsErr(res))

(* C8: for a noneCodeNodes map with canonical keys, the decoded registry   *)
(* queried by ordinal n returns the fragment stored under the key whose    *)
(* text is n and absent for every other ordinal; the leading fragment is   *)
(* decoded independently, an absent or null start giving none.             *)
C8_RegistryLookup ==
    ( /\ FromWire /\ ty = "NoneCodeMeta" /\ Finished
      /\ WellFormedReg(input.wire)
      /\ \A key \in DOMAIN RegMap(input.wire) : Canonical(key) )
    => /\ Decoded
       /\ res.ok.start =
            IF "start" \in DOMAIN input.wire.obj /\ ~IsNull(input.wire.obj["start"])
            THEN <<FragOf(input.wire.obj["start"])>> ELSE <<>>
       /\ pc = "queried" =>
            LET m == RegMap(input.wire)
                hit == {key \in DOMAIN m : DecimalValue(key) = query[1]}
            IN  query[2] = IF hit = {} THEN <<>>
                           ELSE <<FragOf(m[CHOOSE key \in hit : TRUE])>>

C8_Witness ==
    /\ FromWire /\ ty = "NoneCodeMeta" /\ pc = "queried"
    /\ DOMAIN RegMap(input.wire) = {<<"1">>}
    /\ "start" \notin DOMAIN input.wire.obj
    /\ query = <<1, <<[start |-> 0, end |-> 1, value |-> "// hi"]>> >>

C8_WitnessAbsent ==
    /\ FromWire /\ ty = "NoneCodeMeta" /\ pc = "queried"
    /\ DOMAIN RegMap(input.wire) = {<<"1">>}
    /\ query = <<0, <<>> >>

(* C9: whenever decoding a noneCodeNodes map succeeds the registry holds   *)
(* exactly as many fragments as the wire map has keys: two keys denoting   *)
(* the same integer ("3" and "03") never decode to a registry holding one  *)
(* of the two fragments.                                                   *)
C9_NoFragmentDropped ==
    ( /\ FromWire /\ ty = "NoneCodeMeta" /\ Decoded
      /\ \A key \in DOMAIN RegMap(input.wire) : AllDigits(key) ) =>
        Cardinality(DOMAIN res.ok.none_code_nodes)
          = Cardinality(DOMAIN RegMap(input.wire))

(* C6, as claimed: every node of every tree that decode returns, the       *)
(* non-code fragments included, satisfies start <= end; a document with a  *)
(* node whose start is greater than its end does not decode to a tree that *)
(* violates the invariant.                                                 *)
RECURSIVE SpansOrdered(_, _)
RECURSIVE SpansOrderedTy(_, _)

SpansOrderedTy(t, v) ==
    CASE t.k = "Vec" -> \A i \in 1..Len(v) : SpansOrdered(t.of, v[i])
      [] t.k = "Option" -> Len(v) = 0 \/ SpansOrdered(t.of, v[1])
      [] t.k = "HashMap" -> \A n \in DOMAIN v : SpansOrdered(t.of, v[n])
      [] t.k = "node" -> SpansOrdered(t.of, v)
      [] OTHER -> TRUE

(* every node of the tree v of type t has start <= end *)
SpansOrdered(t, v) ==
    IF t \in EnumNames THEN SpansOrdered(v.variant, v.val)
    ELSE /\ t # "NoneCodeMeta" => v.start <= v["end"]
         /\ \A i \in 1..Len(Fields(t)) :
              SpansOrderedTy(Fields(t)[i].ty, v[Fields(t)[i].name])

RECURSIVE WireSpansOrdered(_, _)
RECURSIVE WireSpansOrderedTy(_, _)

WireSpansOrderedTy(t, j) ==
    CASE t.k = "Vec" -> \A i \in 1..Len(j.arr) : WireSpansOrdered(t.of, j.arr[i])
      [] t.k = "Option" -> IsNull(j) \/ WireSpansOrdered(t.of, j)
      [] t.k = "HashMap" -> \A key \in DOMAIN j.obj : WireSpansOrdered(t.of, j.obj[key])
      [] t.k = "node" -> WireSpansOrdered(t.of, j)
      [] OTHER -> TRUE

(* every node object of the well-formed document j of type t has           *)
(* start <= end                                                            *)
WireSpansOrdered(t, j) ==
    IF t \in EnumNames THEN WireSpansOrdered(TagOf(j), j)
    ELSE /\ t # "NoneCodeMeta" => j.obj["start"].num <= j.obj["end"].num
         /\ \A i \in 1..Len(Fields(t)) :
              CamelCase(Fields(t)[i].name) \in DOMAIN j.obj =>
                WireSpansOrderedTy(Fields(t)[i].ty, j.obj[CamelCase(Fields(t)[i].name)])

C6_SpanInvariant ==
    (FromWire /\ Decoded) => SpansOrdered(ty, res.ok)

(* C6, amended: decode neither checks nor repairs the offsets, it copies   *)
(* them: the root of a decoded tree carries the start and end of the       *)
(* document's root object, and every node of the decoded tree satisfies    *)
(* start <= end whenever every node object of the document does.  A        *)
(* document with start > end at a node is accepted.                        *)
C6_SpansAreCopied ==
    (FromWire /\ Decoded) =>
        /\ ty = "Program" =>
             /\ res.ok.start = input.wire.obj["start"].num
             /\ res.ok.end = input.wire.obj["end"].num
        /\ ty \in EnumNames =>
             /\ res.ok.val.start = input.wire.obj["start"].num
             /\ res.ok.val.end = input.wire.obj["end"].num
        /\ WireSpansOrdered(ty, input.wire) => SpansOrdered(ty, res.ok)

C6_Witness ==
    /\ FromWire /\ ty = "Program" /\ pc = "decoded"
    /\ input.wire.obj["start"].num = 1 /\ input.wire.obj["end"].num = 0
    /\ res.ok.start > res.ok.end

C6_WitnessOrdered ==
    /\ FromWire /\ ty = "Program" /\ pc = "decoded"
    /\ Len(res.ok.body) = 1
    /\ WireSpansOrdered(ty, input.wire)

(* C10, as claimed: every decoded Literal holds a string, a number or a    *)
(* boolean together with its raw text and is encoded again with the same   *)
(* scalar; a Literal whose value is null, an array or an object, or whose  *)
(* raw field is missing, does not decode.                                  *)
IsScalar(j) == IsStr(j) \/ IsNum(j) \/ IsBool(j)

IsLiteralDoc ==
    /\ FromWire /\ ty \in {"Value", "BinaryPart", "MemberProperty"}
    /\ HasTag(input.wire) /\ TagOf(input.wire) = "Literal"

C10_WitnessScalar ==
    /\ IsLiteralDoc /\ pc = "reencoded"
    /\ res.ok.val.value = JNum(1)

C10_WitnessNoRaw ==
    /\ IsLiteralDoc /\ pc = "failed"
    /\ "raw" \notin DOMAIN input.wire.obj

====
